---- MODULE Spec2Model ----
(***************************************************************************)
(* Verification model of dcotssUtils.atmos.StandardAtmos: the four-layer   *)
(* standard-atmosphere table, the forward conversion fromMeters and the    *)
(* two bisection inverses fromPa and fromTheta.                            *)
(*                                                                         *)
(* Python floats are modelled in fixed point.  Every physical quantity is  *)
(* an integer count of a small unit:                                       *)
(*   altitude     1/AltUnit  m   (0.1 mm)                                  *)
(*   pressure     1/PresUnit Pa  (0.1 mPa)                                 *)
(*   temperature  1/TempUnit K   (1 uK), potential temperature likewise    *)
(*   density      1/DenUnit  kg m^-3                                       *)
(* and dimensionless intermediate values (logarithms, exponents, ratios)   *)
(* are integers scaled by FP = 2^28.  math.exp and ** are computed by      *)
(* series, so a conversion is something the checks can refute.             *)
(***************************************************************************)
EXTENDS Integers, Sequences, FiniteSets, TLC

\* ------------------------------------------------------------------------
\* Fixed-point arithmetic standing for Python's float *, /, ** and math.exp
\* ------------------------------------------------------------------------

FP == 2^28
HalfBits == 2^14
AltUnit == 10^4
PresUnit == 10^4
TempUnit == 10^6
DenUnit == 10^6

Abs(x) == IF x < 0 THEN -x ELSE x

Sgn(x) == IF x < 0 THEN -1 ELSE 1

\* the element of a set of one element; The({f(x) : x \in {e}}) is f(e) with
\* e evaluated before f
The(S) == CHOOSE x \in S : TRUE

\* one binary digit of long multiplication: from h = <<q, r>> with
\* ra*n = q*c + r to the pair for ra*(2n + bit)
MulDivStep(h, bit, ra, c) ==
  <<2 * h[1] + (2 * h[2] + bit * ra) \div c, (2 * h[2] + bit * ra) % c>>

\* the binary digits hi down to lo of b taken in turn, from the pair h: the
\* upper half of the digits first, then the lower half
RECURSIVE MulDivDigits(_, _, _, _, _, _)
MulDivDigits(h, ra, b, c, hi, lo) ==
  IF hi = lo THEN MulDivStep(h, (b \div 2^lo) % 2, ra, c)
  ELSE The({MulDivDigits(m, ra, b, c, (hi + lo) \div 2, lo) :
              m \in {MulDivDigits(h, ra, b, c, hi, (hi + lo) \div 2 + 1)}})

\* <<q, r>> with ra*b = q*c + r and 0 <= r < c, for 0 <= ra < c and
\* 0 <= b < 2^31 (no intermediate exceeds 3*c)
MulDivRem(ra, b, c) == MulDivDigits(<<0, 0>>, ra, b, c, 30, 0)

\* a*b/c rounded toward zero, for c > 0: the float product-then-quotient
MulDiv(a, b, c) ==
  Sgn(a) * Sgn(b)
    * ((Abs(a) \div c) * Abs(b) + MulDivRem(Abs(a) % c, Abs(b), c)[1])

\* (a1*2^14 + a0) * (b1*2^14 + b0) / 2^28
MulLimbs(a1, a0, b1, b0) ==
  a1 * b1 + (a1 * b0) \div HalfBits + (a0 * b1) \div HalfBits
    + (a0 * b0) \div FP

\* the product a*b/FP of an FP-scaled value and another value
MulFix(a, b) ==
  Sgn(a) * Sgn(b)
    * MulLimbs(Abs(a) \div HalfBits, Abs(a) % HalfBits,
               Abs(b) \div HalfBits, Abs(b) % HalfBits)

\* floor(log2 n) for 1 <= n < 2^31
Log2(n) == CHOOSE k \in 0..30 : n \div 2^k = 1

\* n scaled into [FP, 2*FP), given k = floor(log2 n)
MantAt(n, k) == IF k <= 28 THEN n * 2^(28 - k) ELSE n \div 2^(k - 28)

Mant(n) == MantAt(n, Log2(n))

\* Horner's rule for the terms j = 2k+1, k = hi down to lo, of the series of
\* atanh: acc becomes 1/j + w*acc at each term
RECURSIVE AtanhHorner(_, _, _, _)
AtanhHorner(acc, w, hi, lo) ==
  IF hi = lo THEN FP \div (2 * hi + 1) + MulFix(w, acc)
  ELSE The({AtanhHorner(m, w, (hi + lo) \div 2, lo) :
              m \in {AtanhHorner(acc, w, hi, (hi + lo) \div 2 + 1)}})

\* sum_{odd j', j <= j' <= 17} w^((j'-j)/2) / j', the series of atanh(z)/z
\* in w = z^2
AtanhTail(w, j) == AtanhHorner(0, w, 8, (j - 1) \div 2)

\* 2*atanh(z)
LnOfZ(z) == 2 * MulFix(z, AtanhTail(MulFix(z, z), 1))

\* ln(m/FP) for m in [FP, 2*FP): 2*atanh((m-FP)/(m+FP))
LnMant(m) == LnOfZ(MulDiv(m - FP, FP, m + FP))

Ln2 == LnMant(2 * FP - 1) + 1

\* ln(a/b), FP-scaled, for positive integers a, b
LnRatio(a, b) ==
  (Log2(a) - Log2(b)) * Ln2 + LnMant(Mant(a)) - LnMant(Mant(b))

\* Horner's rule for the terms j = hi down to lo of the Taylor series of
\* exp: acc becomes 1 + r*acc/j at each term
RECURSIVE ExpHorner(_, _, _, _)
ExpHorner(acc, r, hi, lo) ==
  IF hi = lo THEN FP + MulFix(r, acc) \div hi
  ELSE The({ExpHorner(m, r, (hi + lo) \div 2, lo) :
              m \in {ExpHorner(acc, r, hi, (hi + lo) \div 2 + 1)}})

\* sum_{j-1 <= n <= 13} r^(n-j+1) * (j-1)!/n!, the Taylor series of exp
ExpTail(r, j) == ExpHorner(FP, r, 13, j)

\* e * 2^k
Shift(e, k) == IF k >= 0 THEN e * 2^k ELSE e \div 2^(-k)

\* math.exp(x/FP), FP-scaled: x = k*ln2 + r, exp(x) = 2^k * exp(r)
ExpAt(x, k) == Shift(ExpTail(x - k * Ln2, 1), k)

ExpFix(x) == ExpAt(x, x \div Ln2)

\* ------------------------------------------------------------------------
\* StandardAtmos: class constants and pure helpers
\* ------------------------------------------------------------------------

\* g = 9.80665 m s^-2, as g/GUnit
g == 980665
GUnit == 10^5

\* R = 287.00 J kg^-1 K^-1
R == 287

\* Cp = 1005.7 J kg^-1 K^-1, as Cp/CpUnit
Cp == 10057
CpUnit == 10

\* lapse rates are counted in 1/LapseUnit K/m
LapseUnit == 10^4

\* the reference pressure 1.0e5 Pa of t2theta
RefPres == 10^5 * PresUnit

NLayers == 4

\* temp * (1.0e5 / pres)**(R / Cp)
t2theta(temp, pres) ==
  MulFix(temp, ExpFix(MulDiv(LnRatio(RefPres, pres), R * CpUnit, Cp)))

\* pres / (R * temp)
density(temp, pres) ==
  MulDiv(pres, (DenUnit \div PresUnit) * TempUnit, temp) \div R

\* p1 = p0 * (t1 / t0) ** (-g / a / R), with t1
calLapse(p0, t0, a, t1) ==
  <<MulFix(p0, ExpFix(-Sgn(a) * MulDiv(LnRatio(t1, t0), g,
                                       Abs(a) * R * (GUnit \div LapseUnit)))),
    t1>>

\* (mutant) the isothermal layer taken downward: exp(+g/R/t0 * (h1 - h0))
calIsoUp(p0, t0, dh) ==
  <<MulFix(p0, ExpFix(MulDiv(MulDiv(dh, g,
                                    (R * GUnit) \div (TempUnit \div AltUnit)),
                             FP, t0))),
    t0>>

\* (mutant) the isothermal layer with a lapse of 0.01 K/km instead of t1 = t0
calIsoCooling(p0, t0, dh) ==
  <<MulFix(p0, ExpFix(-MulDiv(MulDiv(dh, g,
                                     (R * GUnit) \div (TempUnit \div AltUnit)),
                              FP, t0))),
    t0 - dh \div 10^3>>

\* p1 = p0 * math.exp(-g / R / t0 * (h1 - h0)), with t1 = t0; dh = h1 - h0
calIso(p0, t0, dh) ==
  <<MulFix(p0, ExpFix(-MulDiv(MulDiv(dh, g,
                                     (R * GUnit) \div (TempUnit \div AltUnit)),
                              FP, t0))),
    t0>>

\* cal(p0, t0, a, h0, h1): <<p1, t1>> at h1 from the state <<p0, t0>> at h0
cal(p0, t0, a, h0, h1) ==
  IF a # 0
  THEN calLapse(p0, t0, a,
                t0 + MulDiv(h1 - h0, a, (LapseUnit * AltUnit) \div TempUnit))
  ELSE calIso(p0, t0, h1 - h0)

\* the outcomes of a call
Raised(kind) == [kind |-> kind]

\* raise Exception(message): the text of the message and the numbers written
\* into it, in order
RangeError(text, numbers) ==
  [kind |-> "Exception", text |-> text, carries |-> numbers]

Tuple4(pres, temp, theta, den) ==
  [kind |-> "ok", pres |-> pres, temp |-> temp, theta |-> theta, den |-> den]

\* (mutant) the returned theta is the air temperature
fromMetersResultDry(c) == Tuple4(c[1], c[2], c[2], density(c[2], c[1]))

\* theta = t2theta(temp, pres); return pres, temp, theta, density(temp, pres)
fromMetersResult(c) ==
  Tuple4(c[1], c[2], t2theta(c[2], c[1]), density(c[2], c[1]))

\* (mutant) a layer also takes the first kilometre above its ceiling
fromMetersInLayerLate(s, alt, i) == alt <= s.h[i] + 1000 * AltUnit

\* if alt <= self.h[i]: the test of the for loop
fromMetersInLayer(s, alt, i) == alt <= s.h[i]

\* the loop of fromMeters from layer i on, with the running base <<p0, t0>>;
\* each pass evaluates cal before what follows it
RECURSIVE fromMetersLoop(_, _, _, _, _)
fromMetersLoop(s, alt, i, base, prevh) ==
  IF i > NLayers THEN Raised("None")
  ELSE IF fromMetersInLayer(s, alt, i)
       THEN The({fromMetersResult(c) :
                   c \in {cal(base[1], base[2], s.a[i], prevh, alt)}})
       ELSE The({fromMetersLoop(s, alt, i + 1, c, s.h[i]) :
                   c \in {cal(base[1], base[2], s.a[i], prevh, s.h[i])}})

\* (mutant) the range check with the ground excluded
fromMetersRangeNoGround(alt) == alt <= 0 \/ alt > 47000 * AltUnit

\* the range check of fromMeters
fromMetersRange(alt) == alt < 0 \/ alt > 47000 * AltUnit

\* raise Exception("altitude must be in [0, 47000] m")
fromMetersRaise ==
  RangeError("altitude must be in [0, 47000] m", <<0, 47000 * AltUnit>>)

\* fromMeters(alt) on the object s
fromMeters(s, alt) ==
  IF fromMetersRange(alt) THEN fromMetersRaise
  ELSE fromMetersLoop(s, alt, 1, <<s.p0, s.t0>>, 0)

\* __init__: the ground state, then one table entry per layer
Ground ==
  [a |-> <<-65, 0, 10, 28>>,
   h |-> <<11000 * AltUnit, 20000 * AltUnit, 32000 * AltUnit, 47000 * AltUnit>>,
   p0 |-> 101325 * PresUnit,
   t0 |-> 28815 * (TempUnit \div 100)]

\* the appends of the construction loop, r[i] = fromMeters(h[i])
Table(s, r) ==
  [a |-> s.a, h |-> s.h, p0 |-> s.p0, t0 |-> s.t0,
   theta0 |-> t2theta(s.t0, s.p0),
   p |-> [i \in 1..NLayers |-> r[i].pres],
   t |-> [i \in 1..NLayers |-> r[i].temp],
   theta |-> [i \in 1..NLayers |-> r[i].theta]]

\* (mutant) the construction loop stops one layer short and repeats its
\* last entry
InitLoopShort(s) ==
  [i \in 1..NLayers |->
     fromMeters(s, s.h[IF i = NLayers THEN NLayers - 1 ELSE i])]

\* for i in range(4): pres, temp, theta, den = self.fromMeters( self.h[i] )
InitLoop(s) == [i \in 1..NLayers |-> fromMeters(s, s.h[i])]

StandardAtmos == Table(Ground, InitLoop(Ground))

\* ------------------------------------------------------------------------
\* State: one StandardAtmos object and one caller
\* ------------------------------------------------------------------------

VARIABLES
  self,   \* the object's attributes a, h, p0, t0, theta0, p, t, theta
  pc,     \* "idle": no call in progress; "bisect": inside the while loop
  op,     \* the method last entered ("init" right after construction)
  arg,    \* its argument, in the unit fromMeters / fromPa / fromTheta takes
  src,    \* the altitude whose forward result was passed as arg, or NoSrc
  loc,    \* the locals h0, h1, mid, p, t, theta, d, i of fromPa / fromTheta
  ret,    \* the outcome of the last finished call
  pair,   \* two altitudes and their forward results (specification SpecPair)
  calls,  \* per caller of a shared object: pc, op, arg, ret (SpecCalls)
  frames, \* per call frame: the locals of the call running in it (SpecCalls)
  widget, \* the HeightConverter: field texts, oldVals, log (SpecWidget)
  LOCK,      \* spcUtils.LOCK: the thread that holds it, or Free
  outlooks,  \* the five dictionaries of one SPC_Shapefiles object
  downloads, \* the number of getLatest calls made on it so far
  threads,   \* per thread: its position in a method of the object
  spcw,      \* the SPCWidget: currentDay, buttons, outlookType, the map
  nws        \* the NWS_Forecast: meteogram, labels, timer

\* the state of the SPC and NWS classes, which the atmosphere model and the
\* HeightConverter do not touch
gui == <<LOCK, outlooks, downloads, threads, spcw, nws>>

vars ==
  <<self, pc, op, arg, src, loc, ret, pair, calls, frames, widget, gui>>

\* the state of the callers and of the widgets, which a call made by the
\* single caller of Spec does not touch
outside == <<calls, frames, widget, gui>>

NoSrc == 0 - 1

NoLoc ==
  [h0 |-> 0, h1 |-> 0, mid |-> 0, p |-> 0, t |-> 0, theta |-> 0, d |-> 0,
   i |-> 0]

NoRet == [kind |-> "none"]

NoPair == [a1 |-> 0, a2 |-> 0, r1 |-> NoRet, r2 |-> NoRet, done |-> FALSE]

\* the iteration budget and the convergence threshold 0.05 = Tol/TolUnit
MaxIter == 50
Tol == 5
TolUnit == 10^2

\* KM2KFT, kilofeet per kilometre, as KM2KFT/KftUnit
KM2KFT == 328084
KftUnit == 10^5

\* ------------------------------------------------------------------------
\* Inputs
\* ------------------------------------------------------------------------

\* the number of sample points per input domain, and per unit wrapper
NSamples == 8

NWrap == 4

Top == 47000 * AltUnit

\* sample altitudes, whole metres
AltSamples == {k * (47000 \div NSamples) * AltUnit : k \in 0..NSamples}

Ceilings == {Ground.h[i] : i \in 1..NLayers}

AltInputs ==
  AltSamples \cup Ceilings \cup {Top} \cup {-AltUnit, -1, Top + 1, Top + AltUnit}

KmInputs == {(k * 47) \div NWrap : k \in -1..(NWrap + 1)}

KftInputs == {(k * 154) \div NWrap : k \in -1..(NWrap + 1)}

HPaInputs == {(k * 1014) \div NWrap : k \in 0..NWrap}

PresInputs(s) ==
  {s.p0, s.p0 + 1, s.p[NLayers], s.p[NLayers] - 1}
    \cup {s.p[i] : i \in 1..NLayers}
    \cup {102000 * PresUnit, 100 * PresUnit}

ThetaInputs(s) ==
  {s.theta0, s.theta0 - 1, s.theta[NLayers], s.theta[NLayers] + 1}
    \cup {s.theta[i] : i \in 1..NLayers}
    \cup {(300 + (k * 1600) \div NSamples) * TempUnit : k \in 0..NSamples}

\* ------------------------------------------------------------------------
\* Forward conversions
\* ------------------------------------------------------------------------

\* (mutant) the walk past the first layer stores its running base state in
\* the attributes p0, t0 instead of the locals
fromMetersSelfLeak(s, alt) ==
  IF alt > s.h[1] /\ alt <= 47000 * AltUnit
  THEN [s EXCEPT !.p0 = s.p[1], !.t0 = s.t[1]]
  ELSE s

\* the object after fromMeters(alt): the walk works on locals p0, t0, prevh
fromMetersSelf(s, alt) == s

Forward(name, alt) ==
  /\ pc = "idle"
  /\ op' = name
  /\ arg' = alt
  /\ src' = NoSrc
  /\ loc' = NoLoc
  /\ ret' = fromMeters(self, alt)
  /\ self' = fromMetersSelf(self, alt)
  /\ pc' = "idle"
  /\ UNCHANGED <<pair, outside>>

CallFromMeters == \E alt \in AltInputs : Forward("fromMeters", alt)

\* fromKilometers(alt) = fromMeters(alt * 1.0e3)
CallFromKilometers ==
  \E km \in KmInputs : Forward("fromKilometers", km * 1000 * AltUnit)

\* fromKilofeet(alt) = fromMeters(alt / KM2KFT * 1.0e3)
CallFromKilofeet ==
  \E kft \in KftInputs :
    Forward("fromKilofeet", MulDiv(kft * 1000 * AltUnit, KftUnit, KM2KFT))

\* ------------------------------------------------------------------------
\* Inverse conversions
\* ------------------------------------------------------------------------

\* (mutant) every interval starts at the ground
LayerFromGround(s, i) == <<0, s.h[i]>>

\* the layer picked by the for loop: ground or previous ceiling, to ceiling i
Layer(s, i) == IF i = 1 THEN <<0, s.h[1]>> ELSE <<s.h[i - 1], s.h[i]>>

\* mid = (h0+h1)/2.0
Mid(h0, h1) == (h0 + h1) \div 2

\* the locals once mid has been evaluated by fromMeters, with budget i
Locals(h0, h1, r, i) ==
  [h0 |-> h0, h1 |-> h1, mid |-> Mid(h0, h1), p |-> r.pres, t |-> r.temp,
   theta |-> r.theta, d |-> r.den, i |-> i]

\* entering the loop on the layer <<h0, h1>>; an error of fromMeters(mid)
\* propagates to the caller
EnterWith(hs, r) ==
  IF r.kind = "ok"
  THEN /\ loc' = Locals(hs[1], hs[2], r, MaxIter)
       /\ pc' = "bisect"
       /\ ret' = NoRet
       /\ self' = fromMetersSelf(self, Mid(hs[1], hs[2]))
  ELSE /\ loc' = NoLoc
       /\ pc' = "idle"
       /\ ret' = r
       /\ UNCHANGED self

Enter(hs) == EnterWith(hs, fromMeters(self, Mid(hs[1], hs[2])))

\* one pass of the loop body on the narrowed interval <<h0, h1>>
NarrowWith(hs, r) ==
  IF r.kind = "ok"
  THEN /\ loc' = Locals(hs[1], hs[2], r, loc.i - 1)
       /\ self' = fromMetersSelf(self, Mid(hs[1], hs[2]))
       /\ UNCHANGED <<pc, ret>>
  ELSE /\ loc' = loc
       /\ pc' = "idle"
       /\ ret' = r
       /\ UNCHANGED self

Narrow(hs) == NarrowWith(hs, fromMeters(self, Mid(hs[1], hs[2])))

\* 0.05 in the unit of the compared quantity
PaTol == (Tol * PresUnit) \div TolUnit

ThetaTol == (Tol * TempUnit) \div TolUnit

\* (mutant) the range check without its lower bound
fromPaRangeUpperOnly(s, pres) == pres > s.p0

\* the range check of fromPa
fromPaRange(s, pres) == pres > s.p0 \/ pres < s.p[NLayers]

\* raise Exception( f'pressure must be in [{self.p0}, {self.p[-1]}] Pa' )
fromPaRaise(s, pres) ==
  RangeError("pressure must be in [{}, {}] Pa", <<s.p0, s.p[Len(s.p)]>>)

\* the for loop of fromPa: the first i with pres > p[i], 0 when there is none
RECURSIVE fromPaScan(_, _, _)
fromPaScan(s, pres, i) ==
  IF i > Len(s.p) THEN 0
  ELSE IF pres > s.p[i] THEN i ELSE fromPaScan(s, pres, i + 1)

\* the while condition of fromPa
fromPaWhile(l, pres) == Abs(l.p - pres) > PaTol /\ l.i > 0

\* (mutant) the halves of fromPa exchanged
fromPaHalfMirrored(l, pres) ==
  IF pres > l.p THEN <<l.mid, l.h1>> ELSE <<l.h0, l.mid>>

\* the interval kept by the loop body of fromPa
fromPaHalf(l, pres) ==
  IF pres > l.p THEN <<l.h0, l.mid>> ELSE <<l.mid, l.h1>>

\* (mutant) the lower end of the interval returned in place of mid
fromPaReturnLower(l) ==
  [kind |-> "ok", alt |-> l.h0, temp |-> l.t, theta |-> l.theta, den |-> l.d]

\* return mid, t, theta, d
fromPaReturn(l) ==
  [kind |-> "ok", alt |-> l.mid, temp |-> l.t, theta |-> l.theta, den |-> l.d]

\* fromPa(pres) up to the first test of the while condition
FromPaEnter(name, pres, from) ==
  /\ pc = "idle"
  /\ op' = name
  /\ arg' = pres
  /\ src' = from
  /\ UNCHANGED <<pair, outside>>
  /\ IF fromPaRange(self, pres)
     THEN /\ ret' = fromPaRaise(self, pres)
          /\ loc' = NoLoc
          /\ pc' = "idle"
          /\ UNCHANGED self
     ELSE IF fromPaScan(self, pres, 1) = 0
          THEN /\ ret' = Raised("UnboundLocalError")
               /\ loc' = NoLoc
               /\ pc' = "idle"
               /\ UNCHANGED self
          ELSE Enter(Layer(self, fromPaScan(self, pres, 1)))

\* the pressures a caller passes: given ones, or the one fromMeters returned
PaCalls ==
  {<<x, NoSrc>> : x \in PresInputs(self)}
    \cup (IF op = "fromMeters" /\ ret.kind = "ok" THEN {<<ret.pres, arg>>}
          ELSE {})

CallFromPa == \E c \in PaCalls : FromPaEnter("fromPa", c[1], c[2])

\* fromhPa(pres) = fromPa(pres * 1.0e2)
CallFromhPa ==
  \E hpa \in HPaInputs : FromPaEnter("fromhPa", hpa * 100 * PresUnit, NoSrc)

InFromPa == pc = "bisect" /\ op \in {"fromPa", "fromhPa"}

FromPaNarrow ==
  /\ InFromPa
  /\ fromPaWhile(loc, arg)
  /\ Narrow(fromPaHalf(loc, arg))
  /\ UNCHANGED <<op, arg, src, pair, outside>>

FromPaReturn ==
  /\ InFromPa
  /\ ~fromPaWhile(loc, arg)
  /\ ret' = fromPaReturn(loc)
  /\ pc' = "idle"
  /\ UNCHANGED <<self, op, arg, src, loc, pair, outside>>

\* (mutant) the range check without its upper bound
fromThetaRangeLowerOnly(s, thetaIn) == thetaIn < s.theta0

\* the range check of fromTheta
fromThetaRange(s, thetaIn) == thetaIn < s.theta0 \/ thetaIn > s.theta[NLayers]

\* raise Exception( f'theta must be in [{self.theta0}, {self.theta[-1]}] K ' )
fromThetaRaise(s, thetaIn) ==
  RangeError("theta must be in [{}, {}] K ", <<s.theta0, s.theta[Len(s.theta)]>>)

\* the for loop of fromTheta: the first i with thetaIn < theta[i], else 0
RECURSIVE fromThetaScan(_, _, _)
fromThetaScan(s, thetaIn, i) ==
  IF i > Len(s.t) THEN 0
  ELSE IF thetaIn < s.theta[i] THEN i ELSE fromThetaScan(s, thetaIn, i + 1)

\* (mutant) the while condition without the convergence test
fromThetaWhileBudgetOnly(l, thetaIn) == l.i > 0

\* the while condition of fromTheta
fromThetaWhile(l, thetaIn) == Abs(l.theta - thetaIn) > ThetaTol /\ l.i > 0

\* (mutant) the halves of fromTheta exchanged
fromThetaHalfMirrored(l, thetaIn) ==
  IF thetaIn < l.theta THEN <<l.mid, l.h1>> ELSE <<l.h0, l.mid>>

\* the interval kept by the loop body of fromTheta
fromThetaHalf(l, thetaIn) ==
  IF thetaIn < l.theta THEN <<l.h0, l.mid>> ELSE <<l.mid, l.h1>>

\* return p, mid, t, d
fromThetaReturn(l) ==
  [kind |-> "ok", pres |-> l.p, alt |-> l.mid, temp |-> l.t, den |-> l.d]

\* the potential temperatures a caller passes
ThetaCalls ==
  {<<x, NoSrc>> : x \in ThetaInputs(self)}
    \cup (IF op = "fromMeters" /\ ret.kind = "ok" THEN {<<ret.theta, arg>>}
          ELSE {})

\* fromTheta(thetaIn) up to the first test of the while condition
CallFromTheta ==
  \E c \in ThetaCalls :
    /\ pc = "idle"
    /\ op' = "fromTheta"
    /\ arg' = c[1]
    /\ src' = c[2]
    /\ UNCHANGED <<pair, outside>>
    /\ IF fromThetaRange(self, c[1])
       THEN /\ ret' = fromThetaRaise(self, c[1])
            /\ loc' = NoLoc
            /\ pc' = "idle"
            /\ UNCHANGED self
       ELSE IF fromThetaScan(self, c[1], 1) = 0
            THEN /\ ret' = Raised("UnboundLocalError")
                 /\ loc' = NoLoc
                 /\ pc' = "idle"
                 /\ UNCHANGED self
            ELSE Enter(Layer(self, fromThetaScan(self, c[1], 1)))

InFromTheta == pc = "bisect" /\ op = "fromTheta"

FromThetaNarrow ==
  /\ InFromTheta
  /\ fromThetaWhile(loc, arg)
  /\ Narrow(fromThetaHalf(loc, arg))
  /\ UNCHANGED <<op, arg, src, pair, outside>>

FromThetaReturn ==
  /\ InFromTheta
  /\ ~fromThetaWhile(loc, arg)
  /\ ret' = fromThetaReturn(loc)
  /\ pc' = "idle"
  /\ UNCHANGED <<self, op, arg, src, loc, pair, outside>>

\* ------------------------------------------------------------------------
\* The inverse conversions as functions: a call run from entry to return
\* ------------------------------------------------------------------------

\* p, t, theta, d = self.fromMeters( mid ) on the interval hs with budget i:
\* the locals, or the error fromMeters raised
fromMetersAtMid(hs, r, i) ==
  IF r.kind = "ok" THEN Locals(hs[1], hs[2], r, i) ELSE r

AtMid(s, hs, i) == fromMetersAtMid(hs, fromMeters(s, Mid(hs[1], hs[2])), i)

\* the call has ended in an error
Ended(l) == "kind" \in DOMAIN l

\* one test of the while condition of fromPa and, when it holds, the body
fromPaStep(s, l, pres) ==
  IF Ended(l) THEN l
  ELSE IF fromPaWhile(l, pres) THEN AtMid(s, fromPaHalf(l, pres), l.i - 1)
       ELSE l

\* n tests of the while condition, the second half of them on the locals
\* the first half left
RECURSIVE fromPaIter(_, _, _, _)
fromPaIter(s, l, n, pres) ==
  IF n = 0 THEN l
  ELSE IF n = 1 THEN fromPaStep(s, l, pres)
       ELSE The({fromPaIter(s, m, n - n \div 2, pres) :
                   m \in {fromPaIter(s, l, n \div 2, pres)}})

\* the while loop of fromPa, which the budget ends after MaxIter passes, and
\* the return
fromPaRun(s, l, pres) ==
  IF Ended(l) THEN l
  ELSE IF Ended(fromPaIter(s, l, MaxIter, pres))
       THEN fromPaIter(s, l, MaxIter, pres)
       ELSE fromPaReturn(fromPaIter(s, l, MaxIter, pres))

\* fromPa(pres) on the object s
fromPa(s, pres) ==
  IF fromPaRange(s, pres) THEN fromPaRaise(s, pres)
  ELSE IF fromPaScan(s, pres, 1) = 0 THEN Raised("UnboundLocalError")
       ELSE fromPaRun(s, AtMid(s, Layer(s, fromPaScan(s, pres, 1)), MaxIter),
                      pres)

\* one test of the while condition of fromTheta and, when it holds, the body
fromThetaStep(s, l, thetaIn) ==
  IF Ended(l) THEN l
  ELSE IF fromThetaWhile(l, thetaIn)
       THEN AtMid(s, fromThetaHalf(l, thetaIn), l.i - 1)
       ELSE l

RECURSIVE fromThetaIter(_, _, _, _)
fromThetaIter(s, l, n, thetaIn) ==
  IF n = 0 THEN l
  ELSE IF n = 1 THEN fromThetaStep(s, l, thetaIn)
       ELSE The({fromThetaIter(s, m, n - n \div 2, thetaIn) :
                   m \in {fromThetaIter(s, l, n \div 2, thetaIn)}})

\* the while loop of fromTheta and the return
fromThetaRun(s, l, thetaIn) ==
  IF Ended(l) THEN l
  ELSE IF Ended(fromThetaIter(s, l, MaxIter, thetaIn))
       THEN fromThetaIter(s, l, MaxIter, thetaIn)
       ELSE fromThetaReturn(fromThetaIter(s, l, MaxIter, thetaIn))

\* fromTheta(thetaIn) on the object s
fromTheta(s, thetaIn) ==
  IF fromThetaRange(s, thetaIn) THEN fromThetaRaise(s, thetaIn)
  ELSE IF fromThetaScan(s, thetaIn, 1) = 0 THEN Raised("UnboundLocalError")
       ELSE fromThetaRun(s, AtMid(s, Layer(s, fromThetaScan(s, thetaIn, 1)),
                                  MaxIter),
                         thetaIn)

\* ------------------------------------------------------------------------
\* Callers of one shared object, each call in a frame of its own
\* ------------------------------------------------------------------------

\* the number of callers
NCallers == 2

Callers == 1..NCallers

\* (mutant) the locals of every call live in one place
FrameShared(c) == 1

\* the frame a call of caller c runs in: Python gives each call its own
FrameOf(c) == c

NoCall == [pc |-> "idle", op |-> "none", arg |-> 0, ret |-> NoRet]

\* the locals of fromMeters (p0, t0, prevh, i) and of fromPa / fromTheta
\* (h0, h1, mid, p, t, theta, d, i), none bound
NoFrame ==
  [h0 |-> 0, h1 |-> 0, mid |-> 0, p |-> 0, t |-> 0, theta |-> 0, d |-> 0,
   i |-> 0, p0 |-> 0, t0 |-> 0, prevh |-> 0]

\* the frame f after the assignments l
Bind(f, l) == [x \in DOMAIN f |-> IF x \in DOMAIN l THEN l[x] ELSE f[x]]

SetCall(c, to, name, x, r) ==
  calls' = [calls EXCEPT ![c] = [pc |-> to, op |-> name, arg |-> x, ret |-> r]]

SetFrame(c, f) == frames' = [frames EXCEPT ![FrameOf(c)] = f]

\* a call of caller c ends with the outcome r; its frame is gone
Leave(c, r) ==
  /\ SetCall(c, "idle", calls[c].op, calls[c].arg, r)
  /\ SetFrame(c, NoFrame)

\* the arguments the callers pass: 26000 m is in the third layer, 2750 m and
\* 13250 m are the second midpoints of the bisection
CallAlts == {26000 * AltUnit, Top + AltUnit}

CallPressures ==
  {fromMeters(StandardAtmos, 2750 * AltUnit).pres,
   StandardAtmos.p[NLayers],
   StandardAtmos.p0 + 1}

CallThetas ==
  {fromMeters(StandardAtmos, 13250 * AltUnit).theta, StandardAtmos.theta0 - 1}

\* fromMeters(alt) up to the first pass of its for loop
CallerFromMeters(c) ==
  \E alt \in CallAlts :
    /\ calls[c].pc = "idle"
    /\ IF fromMetersRange(alt)
       THEN /\ SetCall(c, "idle", "fromMeters", alt, fromMetersRaise)
            /\ UNCHANGED frames
       ELSE /\ SetCall(c, "walk", "fromMeters", alt, NoRet)
            /\ SetFrame(c, Bind(frames[FrameOf(c)],
                                [p0 |-> self.p0, t0 |-> self.t0, prevh |-> 0,
                                 i |-> 1]))
    /\ UNCHANGED <<self, pc, op, arg, src, loc, ret, pair, widget, gui>>

\* (mutant) the else branch of the for loop without prevh = self.h[i]
fromMetersNextStale(s, f, base) ==
  [f EXCEPT !.p0 = base[1], !.t0 = base[2], !.i = f.i + 1]

\* the else branch of the for loop: p0, t0 = base; prevh = self.h[i]
fromMetersNext(s, f, base) ==
  [f EXCEPT !.p0 = base[1], !.t0 = base[2], !.prevh = s.h[f.i], !.i = f.i + 1]

\* one pass of the for loop of fromMeters on the locals f
fromMetersPass(c, f) ==
  IF f.i > NLayers THEN Leave(c, Raised("None"))
  ELSE IF fromMetersInLayer(self, calls[c].arg, f.i)
       THEN Leave(c, fromMetersResult(cal(f.p0, f.t0, self.a[f.i], f.prevh,
                                          calls[c].arg)))
       ELSE /\ SetFrame(c, fromMetersNext(self, f,
                             cal(f.p0, f.t0, self.a[f.i], f.prevh,
                                 self.h[f.i])))
            /\ UNCHANGED calls

FromMetersStep(c) ==
  /\ calls[c].pc = "walk"
  /\ fromMetersPass(c, frames[FrameOf(c)])
  /\ self' = fromMetersSelf(self, calls[c].arg)
  /\ UNCHANGED <<pc, op, arg, src, loc, ret, pair, widget, gui>>

\* mid and fromMeters(mid) on the interval hs with budget i; an error of
\* fromMeters ends the call
BisectWith(c, name, x, hs, r, i) ==
  IF r.kind = "ok"
  THEN /\ SetCall(c, "bisect", name, x, NoRet)
       /\ SetFrame(c, Bind(frames[FrameOf(c)], Locals(hs[1], hs[2], r, i)))
  ELSE /\ SetCall(c, "idle", name, x, r)
       /\ SetFrame(c, NoFrame)

Bisect(c, name, x, hs, i) ==
  /\ BisectWith(c, name, x, hs, fromMeters(self, Mid(hs[1], hs[2])), i)
  /\ self' = fromMetersSelf(self, Mid(hs[1], hs[2]))

\* fromPa(pres) up to the first test of the while condition
CallerFromPa(c) ==
  \E pres \in CallPressures :
    /\ calls[c].pc = "idle"
    /\ IF fromPaRange(self, pres)
       THEN /\ SetCall(c, "idle", "fromPa", pres, fromPaRaise(self, pres))
            /\ UNCHANGED <<self, frames>>
       ELSE IF fromPaScan(self, pres, 1) = 0
            THEN /\ SetCall(c, "idle", "fromPa", pres,
                            Raised("UnboundLocalError"))
                 /\ UNCHANGED <<self, frames>>
            ELSE Bisect(c, "fromPa", pres,
                        Layer(self, fromPaScan(self, pres, 1)), MaxIter)
    /\ UNCHANGED <<pc, op, arg, src, loc, ret, pair, widget, gui>>

\* one test of the while condition of fromPa, then the body or the return
fromPaPass(c, f) ==
  IF fromPaWhile(f, calls[c].arg)
  THEN Bisect(c, "fromPa", calls[c].arg, fromPaHalf(f, calls[c].arg), f.i - 1)
  ELSE Leave(c, fromPaReturn(f)) /\ UNCHANGED self

FromPaStep(c) ==
  /\ calls[c].pc = "bisect"
  /\ calls[c].op = "fromPa"
  /\ fromPaPass(c, frames[FrameOf(c)])
  /\ UNCHANGED <<pc, op, arg, src, loc, ret, pair, widget, gui>>

\* fromTheta(thetaIn) up to the first test of the while condition
CallerFromTheta(c) ==
  \E thetaIn \in CallThetas :
    /\ calls[c].pc = "idle"
    /\ IF fromThetaRange(self, thetaIn)
       THEN /\ SetCall(c, "idle", "fromTheta", thetaIn,
                       fromThetaRaise(self, thetaIn))
            /\ UNCHANGED <<self, frames>>
       ELSE IF fromThetaScan(self, thetaIn, 1) = 0
            THEN /\ SetCall(c, "idle", "fromTheta", thetaIn,
                            Raised("UnboundLocalError"))
                 /\ UNCHANGED <<self, frames>>
            ELSE Bisect(c, "fromTheta", thetaIn,
                        Layer(self, fromThetaScan(self, thetaIn, 1)), MaxIter)
    /\ UNCHANGED <<pc, op, arg, src, loc, ret, pair, widget, gui>>

\* one test of the while condition of fromTheta, then the body or the return
fromThetaPass(c, f) ==
  IF fromThetaWhile(f, calls[c].arg)
  THEN Bisect(c, "fromTheta", calls[c].arg, fromThetaHalf(f, calls[c].arg),
              f.i - 1)
  ELSE Leave(c, fromThetaReturn(f)) /\ UNCHANGED self

FromThetaStep(c) ==
  /\ calls[c].pc = "bisect"
  /\ calls[c].op = "fromTheta"
  /\ fromThetaPass(c, frames[FrameOf(c)])
  /\ UNCHANGED <<pc, op, arg, src, loc, ret, pair, widget, gui>>

\* ------------------------------------------------------------------------
\* The HeightConverter widget
\* ------------------------------------------------------------------------

\* The text of a QLineEdit: a decimal number, counted in the last digit that
\* FMT = '{:10.4f}' writes (1e-4), or a text float() rejects. A value is kept
\* in the unit of the model: km and kft in 1e-7, hPa in 1e-6, K in 1e-6.
Text(n) == [ok |-> TRUE, n |-> n]

NotANumber == [ok |-> FALSE, n |-> 0]

Fields == {"km", "kft", "hPa", "temp", "theta"}

\* the number of model units in the last digit FMT writes
FmtUnit(key) == IF key \in {"km", "kft"} THEN 10^3 ELSE 10^2

\* FMT.format(val): four decimals, rounded to nearest
FMT(key, val) == Text((val + FmtUnit(key) \div 2) \div FmtUnit(key))

\* float( text ) of a number text
Float(key, txt) == txt.n * FmtUnit(key)

\* the for loop of updateLabels: oldVals[key] = val; setText( FMT.format(val) )
SetTexts(w, kwargs) ==
  [w EXCEPT !.oldVals = kwargs @@ w.oldVals,
            !.text = [k \in Fields |->
                        IF k \in DOMAIN kwargs THEN FMT(k, kwargs[k])
                        ELSE w.text[k]]]

\* (mutant) kft is not derived from km: the kft field keeps its old value
updateLabelsNoKft(w, kwargs) ==
  IF DOMAIN kwargs = {} THEN SetTexts(w, w.oldVals)
  ELSE IF "kft" \notin DOMAIN kwargs
       THEN SetTexts(w, kwargs)
       ELSE SetTexts(w, kwargs @@ [km |-> MulDiv(kwargs.kft, KftUnit, KM2KFT)])

updateLabels(w, kwargs) ==
  IF DOMAIN kwargs = {} THEN SetTexts(w, w.oldVals)
  ELSE IF "kft" \notin DOMAIN kwargs
       THEN SetTexts(w, kwargs @@ [kft |-> MulDiv(kwargs.km, KM2KFT, KftUnit)])
       ELSE SetTexts(w, kwargs @@ [km |-> MulDiv(kwargs.kft, KftUnit, KM2KFT)])

\* (mutant) the error is logged and the fields are left as they are
FailedKeepsText(w, err) == [w EXCEPT !.log = err]

\* self.log.error( ... ); self.updateLabels( )
Failed(w, err) == updateLabels([w EXCEPT !.log = err], << >>)

kmChangedWith(w, val, r) ==
  IF r.kind # "ok" THEN Failed(w, r.kind)
  ELSE updateLabels(w, [km |-> val, hPa |-> r.pres, temp |-> r.temp,
                        theta |-> r.theta])

\* Pa, K, theta, d = self.atmos.fromKilometers( val )
kmChanged(s, w) ==
  IF ~w.text.km.ok THEN Failed(w, "ValueError")
  ELSE kmChangedWith(w, Float("km", w.text.km),
                     fromMeters(s, Float("km", w.text.km)))

kftChangedWith(w, val, r) ==
  IF r.kind # "ok" THEN Failed(w, r.kind)
  ELSE updateLabels(w, [kft |-> val, hPa |-> r.pres, temp |-> r.temp,
                        theta |-> r.theta])

\* Pa, K, theta, d = self.atmos.fromKilofeet( val )
kftChanged(s, w) ==
  IF ~w.text.kft.ok THEN Failed(w, "ValueError")
  ELSE kftChangedWith(w, Float("kft", w.text.kft),
                      fromMeters(s, MulDiv(Float("kft", w.text.kft), KftUnit,
                                           KM2KFT)))

\* self.atmos.fromhPa( Pa ): hPaChanged binds val, K, m, theta, d, err only,
\* and the module has no global Pa, so evaluating the argument raises
hPaChangedCall(s, val) == Raised("NameError")

hPaChangedWith(w, val, r) ==
  IF r.kind # "ok" THEN Failed(w, r.kind)
  ELSE updateLabels(w, [km |-> r.alt, hPa |-> val, temp |-> r.temp,
                        theta |-> r.theta])

hPaChanged(s, w) ==
  IF ~w.text.hPa.ok THEN Failed(w, "ValueError")
  ELSE hPaChangedWith(w, Float("hPa", w.text.hPa),
                      hPaChangedCall(s, Float("hPa", w.text.hPa)))

thetaChangedWith(w, val, r) ==
  IF r.kind # "ok" THEN Failed(w, r.kind)
  ELSE updateLabels(w, [km |-> r.alt, hPa |-> r.pres, temp |-> r.temp,
                        theta |-> val])

\* Pa, m, K, d = self.atmos.fromTheta( val )
thetaChanged(s, w) ==
  IF ~w.text.theta.ok THEN Failed(w, "ValueError")
  ELSE thetaChangedWith(w, Float("theta", w.text.theta),
                        fromTheta(s, Float("theta", w.text.theta)))

\* the widget before construction fills it: empty fields, oldVals = {}
NoWidget ==
  [text |-> [k \in Fields |-> NotANumber],
   oldVals |-> << >>,
   log |-> "none",
   entered |-> [field |-> "none", text |-> NotANumber]]

\* the field holds txt and Enter is pressed in it
Entered(w, field, txt) ==
  [w EXCEPT !.text[field] = txt,
            !.entered = [field |-> field, text |-> txt],
            !.log = "none"]

\* __init__: self.km.setText( '0' ); self.kmChanged()
HeightConverter == kmChanged(StandardAtmos, Entered(NoWidget, "km", Text(0)))

\* what the user types, in km, kft, hPa and K
Typed(numbers) == {Text(k * 10^4) : k \in numbers} \cup {NotANumber}

KmTexts == Typed({0, 5, 15, 25, 47, 48})

KftTexts == Typed({10, 50, 100, 160})

HPaTexts == Typed({100, 500, 1013, 2000})

ThetaTexts == Typed({300, 400, 600, 2000})

KmEntered ==
  \E txt \in KmTexts :
    /\ widget' = kmChanged(self, Entered(widget, "km", txt))
    /\ UNCHANGED <<self, pc, op, arg, src, loc, ret, pair, calls, frames, gui>>

KftEntered ==
  \E txt \in KftTexts :
    /\ widget' = kftChanged(self, Entered(widget, "kft", txt))
    /\ UNCHANGED <<self, pc, op, arg, src, loc, ret, pair, calls, frames, gui>>

HPaEntered ==
  \E txt \in HPaTexts :
    /\ widget' = hPaChanged(self, Entered(widget, "hPa", txt))
    /\ UNCHANGED <<self, pc, op, arg, src, loc, ret, pair, calls, frames, gui>>

ThetaEntered ==
  \E txt \in ThetaTexts :
    /\ widget' = thetaChanged(self, Entered(widget, "theta", txt))
    /\ UNCHANGED <<self, pc, op, arg, src, loc, ret, pair, calls, frames, gui>>

\* ------------------------------------------------------------------------
\* spcUtils: SPC_Shapefiles, its LOCK and threads that call its methods
\* ------------------------------------------------------------------------

\* the state of the atmosphere model and of the HeightConverter
atmos == <<self, pc, op, arg, src, loc, ret, pair, calls, frames, widget>>

\* LOCK = Lock(): not held
Free == "free"

\* for day in range(1, 4)
Days == 1..3

\* the outlook types, in the order __getitem__ reads their dictionaries
Types == <<"Categorical", "Probabilistic", "Tornado", "Wind", "Hail">>

TypeSet == {Types[k] : k \in 1..Len(Types)}

\* the five empty dictionaries: entry 0 stands for a day that is no key
NoOutlooks == [ty \in TypeSet |-> [d \in Days |-> 0]]

None == Raised("None")

\* index in self._<type>
Has(o, ty, index) == index \in Days /\ o[ty][index] # 0

\* the bytes of an archive: whether ZipFile accepts them, and the outlook
\* types of the .shp names with a .dbf in it, in the order of namelist()
Bytes(valid, names) == [kind |-> "bytes", valid |-> valid, names |-> names]

\* what the web gives for one day: whether the page downloads, the number
\* of .zip links in it, and what the download of the link returns
Page(page, links, zip) == [page |-> page, links |-> links, zip |-> zip]

NoWeb == Page(FALSE, 0, None)

Web ==
  {Page(FALSE, 0, None),
   Page(TRUE, 2, None),
   Page(TRUE, 1, None),
   Page(TRUE, 1, Bytes(FALSE, << >>)),
   Page(TRUE, 1, Bytes(TRUE, Types))}

\* findShapefile( day ): None when downloadPage returns None (decode raises
\* and is caught), None unless exactly one link ends in .zip, otherwise what
\* downloadPage returns for the link
findShapefile(o) ==
  IF ~o.page THEN None
  ELSE IF o.links = 1 THEN o.zip
  ELSE None

\* (mutant) a day without archive ends the loop
getLatestSkipRest(day) == day + 3

\* continue: the next day of the loop
getLatestSkip(day) == day + 1

\* self._categorical[ day ] = tmp, and so on: the entry of download id
getLatestStore(o, ty, day, id) == [o EXCEPT ![ty][day] = id]

RECURSIVE getLatestStoreAll(_, _, _, _)
getLatestStoreAll(o, names, day, id) ==
  IF names = << >> THEN o
  ELSE getLatestStoreAll(getLatestStore(o, Head(names), day, id),
                         Tail(names), day, id)

\* getLatest from day on, alone on the object: the dictionaries it leaves
\* and how it ends
RECURSIVE getLatestFrom(_, _, _, _)
getLatestFrom(o, web, day, id) ==
  IF day > 3 THEN [outlooks |-> o, ret |-> None]
  ELSE IF findShapefile(web[day]).kind = "None"
       THEN getLatestFrom(o, web, getLatestSkip(day), id)
       ELSE IF ~findShapefile(web[day]).valid
            THEN [outlooks |-> o, ret |-> Raised("BadZipFile")]
            ELSE getLatestFrom(
                   getLatestStoreAll(o, findShapefile(web[day]).names, day, id),
                   web, day + 1, id)

getLatest(o, web, id) == getLatestFrom(o, web, 1, id)

\* SPC_Shapefiles.__init__: empty dictionaries, then getLatest; an exception
\* of getLatest leaves no object
SPC_Shapefiles ==
  {r.outlooks : r \in {x \in {getLatest(NoOutlooks, w, 1) : w \in [Days -> Web]} :
                          x.ret = None}}

\* the number of getLatest calls made on the object, construction included
MaxDownloads == 2

\* the threads that use the object: one that reads it to draw, by the
\* properties and by index, and one that refreshes it with getLatest and
\* reads the properties
Threads == {"plot", "refresh"}

Refreshers == {"refresh"}

Plotters == {"plot"}

NoThread ==
  [pc |-> "idle", op |-> "none", day |-> 0, id |-> 0, todo |-> << >>,
   got |-> << >>, web |-> NoWeb, ret |-> NoRet]

\* inside the with block of wrappedThreadSafe
Inside(t) == threads[t].pc \in {"in", "find", "store"}

SetThread(t, th) == threads' = [threads EXCEPT ![t] = th]

\* (mutant) acquire and release around the call, without the with block
threadSafeExitLeaks(t, r) == IF r.kind = "BadZipFile" THEN t ELSE Free

\* with LOCK: the block is left, by return or by an exception
threadSafeExit(t, r) == Free

\* wrappedThreadSafe is called and reaches with LOCK
CallWrapped(t, name, id) ==
  /\ threads[t].pc = "idle"
  /\ SetThread(t, [NoThread EXCEPT !.pc = "wait", !.op = name, !.id = id])
  /\ UNCHANGED <<LOCK, outlooks>>

CallGetLatest(t) ==
  /\ t \in Refreshers
  /\ downloads < MaxDownloads
  /\ downloads' = downloads + 1
  /\ CallWrapped(t, "getLatest", downloads + 1)
  /\ UNCHANGED <<atmos, spcw, nws>>

\* the properties Categorical, Probabilistic, Tornado, Wind, Hail
CallProperty(t) ==
  /\ \E ty \in TypeSet : CallWrapped(t, ty, 0)
  /\ UNCHANGED <<atmos, downloads, spcw, nws>>

\* with LOCK: the lock is taken and the wrapped function starts
Acquire(t) ==
  /\ threads[t].pc = "wait"
  /\ LOCK = Free
  /\ LOCK' = t
  /\ SetThread(t, IF threads[t].op = "getLatest"
                  THEN [threads[t] EXCEPT !.pc = "find", !.day = 1]
                  ELSE [threads[t] EXCEPT !.pc = "in"])
  /\ UNCHANGED <<atmos, outlooks, downloads, spcw, nws>>

\* the wrapped function ends with r and the with block is left
Exit(t, th, r) ==
  /\ SetThread(t, [NoThread EXCEPT !.op = th.op, !.web = th.web, !.ret = r])
  /\ LOCK' = threadSafeExit(t, r)

\* return self._categorical: the dictionary itself
PropertyReturn(t) ==
  /\ threads[t].pc = "in"
  /\ Exit(t, threads[t], [kind |-> "dict", of |-> threads[t].op])
  /\ UNCHANGED <<atmos, outlooks, downloads, spcw, nws>>

\* the for loop of getLatest goes on with day d, or ends
Advance(t, th, d) ==
  IF d > 3 THEN Exit(t, th, None)
  ELSE /\ SetThread(t, [th EXCEPT !.pc = "find", !.day = d, !.todo = << >>])
       /\ UNCHANGED LOCK

\* data = findShapefile( day ) and what follows up to the first assignment
FindShapefileWith(t, th, data) ==
  IF data.kind = "None" THEN Advance(t, th, getLatestSkip(th.day))
  ELSE IF ~data.valid THEN Exit(t, th, Raised("BadZipFile"))
  ELSE IF data.names = << >> THEN Advance(t, th, th.day + 1)
  ELSE /\ SetThread(t, [th EXCEPT !.pc = "store", !.todo = data.names])
       /\ UNCHANGED LOCK

FindShapefile(t) ==
  /\ threads[t].pc = "find"
  /\ \E o \in Web :
       FindShapefileWith(t, [threads[t] EXCEPT !.web = o], findShapefile(o))
  /\ UNCHANGED <<atmos, outlooks, downloads, spcw, nws>>

\* one assignment self._<type>[ day ] = tmp
Store(t) ==
  /\ threads[t].pc = "store"
  /\ outlooks' = getLatestStore(outlooks, Head(threads[t].todo),
                                threads[t].day, threads[t].id)
  /\ IF Tail(threads[t].todo) = << >>
     THEN Advance(t, threads[t], threads[t].day + 1)
     ELSE /\ SetThread(t, [threads[t] EXCEPT !.todo = Tail(threads[t].todo)])
          /\ UNCHANGED LOCK
  /\ UNCHANGED <<atmos, downloads, spcw, nws>>

\* __getitem__( index ) is entered: out = {}
CallGetItem(t) ==
  /\ t \in Plotters
  /\ threads[t].pc = "idle"
  /\ \E index \in Days :
       SetThread(t, [NoThread EXCEPT !.pc = "item", !.op = "__getitem__",
                                     !.day = index, !.todo = Types])
  /\ UNCHANGED <<atmos, LOCK, outlooks, downloads, spcw, nws>>

\* if index in self._<type>: out[<type>] = self._<type>[ index ]
getItemRead(o, got, ty, index) ==
  IF Has(o, ty, index) THEN Append(got, <<ty, o[ty][index]>>) ELSE got

GetItemStep(t) ==
  /\ threads[t].pc = "item"
  /\ threads[t].todo # << >>
  /\ SetThread(t, [threads[t] EXCEPT
                     !.got = getItemRead(outlooks, @, Head(threads[t].todo),
                                         threads[t].day),
                     !.todo = Tail(@)])
  /\ UNCHANGED <<atmos, LOCK, outlooks, downloads, spcw, nws>>

\* return out
GetItemReturn(t) ==
  /\ threads[t].pc = "item"
  /\ threads[t].todo = << >>
  /\ SetThread(t, [NoThread EXCEPT !.op = threads[t].op,
                                   !.ret = [kind |-> "out",
                                            items |-> threads[t].got]])
  /\ UNCHANGED <<atmos, LOCK, outlooks, downloads, spcw, nws>>

\* ------------------------------------------------------------------------
\* widgets.spcPlot: the SPCWidget, in the thread of the Qt event loop
\* ------------------------------------------------------------------------

\* self[ index ], alone on the object: the keys found, in order
RECURSIVE getItemFrom(_, _, _, _)
getItemFrom(o, got, todo, index) ==
  IF todo = << >> THEN got
  ELSE getItemFrom(o, getItemRead(o, got, Head(todo), index), Tail(todo), index)

getItem(o, index) == getItemFrom(o, << >>, Types, index)

\* a Python value assigned to currentDay
PyInt(k) == [type |-> "int", n |-> k]

NonIntegers ==
  {[type |-> "float", n |-> 2], [type |-> "str", n |-> 2],
   [type |-> "NoneType", n |-> 0]}

NoMap == [type |-> "none", day |-> 0, id |-> 0]

\* the widget before currentDay is first assigned (lines 126-149)
NoSPCWidget ==
  [currentDay |-> 0, dayButtons |-> {}, doomed |-> {}, catButtons |-> {},
   doomedCat |-> {}, outlookType |-> "unset", map |-> NoMap,
   raised |-> "none"]

\* _draw: the map shows the outlook of outlookType for currentDay, if stored
draw(w, o) ==
  IF w.outlookType = "unset" THEN [w EXCEPT !.raised = "AttributeError"]
  ELSE IF ~Has(o, w.outlookType, w.currentDay) THEN w
  ELSE [w EXCEPT !.map = [type |-> w.outlookType, day |-> w.currentDay,
                          id |-> o[w.outlookType][w.currentDay]]]

\* the outlookType setter
setOutlookType(w, o, val) == draw([w EXCEPT !.outlookType = val], o)

\* _updateCatWidget: the old buttons get deleteLater(), one button is made
\* per key of self[ currentDay ], and the first key becomes the outlookType
updateCatWidgetWith(w, o, keys) ==
  IF keys = << >> THEN w ELSE setOutlookType(w, o, keys[1][1])

updateCatWidget(w, o) ==
  updateCatWidgetWith(
    [w EXCEPT !.doomedCat = @ \cup w.catButtons,
              !.catButtons = {getItem(o, w.currentDay)[k][1] :
                                k \in DOMAIN getItem(o, w.currentDay)}],
    o, getItem(o, w.currentDay))

\* the buttons the currentDay setter makes
dayButtonsFor(day) ==
  (IF day > 1 THEN {"backward"} ELSE {}) \cup
  (IF day < 3 THEN {"forward"} ELSE {})

\* the currentDay setter: the buttons in the layout get deleteLater(), which
\* leaves them in place until the event loop deletes them
setCurrentDay(w, o, val) ==
  IF val.type # "int" THEN w
  ELSE updateCatWidget([w EXCEPT !.currentDay = val.n,
                                 !.doomed = @ \cup w.dayButtons,
                                 !.dayButtons = dayButtonsFor(val.n)], o)

\* SPCWidget.__init__ on the constructed SPC_Shapefiles part
SPCWidget(o) == setCurrentDay(NoSPCWidget, o, PyInt(1))

\* the number of clicks followed on buttons that wait for their deletion
ClickCap == 2

\* a click on a day button that exists, deleted later or not
Clicked(button, to) ==
  /\ button \in spcw.dayButtons \cup spcw.doomed
  /\ spcw' = setCurrentDay([spcw EXCEPT !.raised = "none"], outlooks, PyInt(to))
  /\ UNCHANGED <<atmos, LOCK, outlooks, downloads, threads, nws>>

\* _dayForward: self.currentDay += 1
DayForward ==
  /\ spcw.currentDay < 3 + ClickCap
  /\ Clicked("forward", spcw.currentDay + 1)

\* _dayBackward: self.currentDay -= 1
DayBackward ==
  /\ spcw.currentDay > 1 - ClickCap
  /\ Clicked("backward", spcw.currentDay - 1)

\* _on_outlookType_Select, by a click on an outlook type button that exists
OutlookTypeSelect ==
  /\ \E cat \in spcw.catButtons \cup spcw.doomedCat :
       spcw' = setOutlookType([spcw EXCEPT !.raised = "none"], outlooks, cat)
  /\ UNCHANGED <<atmos, LOCK, outlooks, downloads, threads, nws>>

\* the event loop deletes the objects deleteLater() was called on
DeferredDelete ==
  /\ spcw.doomed \cup spcw.doomedCat # {}
  /\ spcw' = [spcw EXCEPT !.doomed = {}, !.doomedCat = {}]
  /\ UNCHANGED <<atmos, LOCK, outlooks, downloads, threads, nws>>

\* updateOutlook, on the timer: self.getLatest(); self._draw()
updateOutlookWith(w, r) ==
  IF r.ret = None THEN draw(w, r.outlooks)
  ELSE [w EXCEPT !.raised = r.ret.kind]

\* one web per result findShapefile can have: None, a corrupt archive, an
\* archive with its shapefiles
Outcomes ==
  {CHOOSE web \in Web : findShapefile(web) = data :
     data \in {findShapefile(web) : web \in Web}}

UpdateOutlook ==
  /\ downloads < MaxDownloads
  /\ downloads' = downloads + 1
  /\ \E web \in [Days -> Outcomes] :
       \E r \in {getLatest(outlooks, web, downloads + 1)} :
         /\ outlooks' = r.outlooks
         /\ spcw' = updateOutlookWith([spcw EXCEPT !.raised = "none"], r)
  /\ UNCHANGED <<atmos, LOCK, threads, nws>>

\* an assignment of a value that is no int to currentDay
AssignNonInteger ==
  /\ \E val \in NonIntegers : spcw' = setCurrentDay(spcw, outlooks, val)
  /\ UNCHANGED <<atmos, LOCK, outlooks, downloads, threads, nws>>

\* ------------------------------------------------------------------------
\* widgets.nws_forecast: roundUp, roundDown, Meteogram and NWS_Forecast
\* ------------------------------------------------------------------------

\* round(val, n) for n <= 0: the nearest multiple of 10**(-n), a half going
\* to the even multiple
round(val, n) ==
  IF val % 10^(0 - n) < 10^(0 - n) \div 2
       \/ (2 * (val % 10^(0 - n)) = 10^(0 - n)
             /\ (val \div 10^(0 - n)) % 2 = 0)
  THEN 10^(0 - n) * (val \div 10^(0 - n))
  ELSE 10^(0 - n) * (val \div 10^(0 - n) + 1)

roundUp(val, n) ==
  IF round(val, n) < val THEN round(val, n) + 10^(0 - n) ELSE round(val, n)

roundDown(val, n) ==
  IF round(val, n) < val THEN round(val, n) - 10^(0 - n) ELSE round(val, n)

Min(S) == CHOOSE x \in S : \A y \in S : x <= y

Max(S) == CHOOSE x \in S : \A y \in S : x >= y

Values(series) == {series[k] : k \in DOMAIN series}

\* the temperatures of a forecast, whole degrees F
TempSamples == {-15, -5, 0, 4, 15, 45, 55, 56}

\* a forecast page with its table: the three series plot_thermo takes and
\* the text of the last update
Forecast(lo, hi, text) ==
  [kind |-> "data", Temperature |-> <<hi, hi>>, Dewpoint |-> <<lo, hi>>,
   HeatIndex |-> <<hi, hi>>, update |-> text]

NoData == [kind |-> "None"]

\* what downloadPage and the parser find: no page, a page without a
\* selected reference date, a page without a table of data, a forecast
Pages ==
  {[kind |-> "no page"], [kind |-> "no date"], [kind |-> "no table"]}
    \cup {Forecast(lo, hi, text) :
            lo \in TempSamples, hi \in {t \in TempSamples : t >= 45},
            text \in 1..2}

\* getNWSData: None without a page, an exception of getRefDate, None when no
\* table with a date column is found, otherwise the parsed data
getNWSData(page) ==
  IF page.kind = "no page" THEN NoData
  ELSE IF page.kind = "no date" THEN Raised("Exception")
  ELSE IF page.kind = "no table" THEN NoData
  ELSE page

\* pMin, pMax of plot_thermo over t, td, heat
thermoValues(data) ==
  Values(data.Temperature) \cup Values(data.Dewpoint) \cup Values(data.HeatIndex)

\* prange = [roundDown(pMin, -1), roundUp(pMax, -1)+10, 10]
plot_thermo(data) ==
  <<roundDown(Min(thermoValues(data)), -1),
    roundUp(Max(thermoValues(data)), -1) + 10>>

\* the widget at line 290: an empty meteogram, empty labels, no timer yet
NoForecast ==
  [fig |-> [data |-> NoData, ylim |-> <<0, 0>>],
   update |-> 0, download |-> 0, timer |-> FALSE, started |-> FALSE,
   got |-> "none", raised |-> "none"]

\* Meteogram.replot( data ): data['date'] of None raises TypeError
replot(f, data, at) ==
  IF data.kind = "None" THEN [f EXCEPT !.raised = "TypeError"]
  ELSE [f EXCEPT !.fig = [data |-> data, ylim |-> plot_thermo(data)],
                 !.update = data.update,
                 !.download = at]

\* NWS_Forecast._update at clock reading at
updateWith(f, r, at) ==
  IF r.kind = "Exception" THEN [f EXCEPT !.got = r.kind]
  ELSE replot([f EXCEPT !.got = r.kind], r, at)

update(f, page, at) == updateWith([f EXCEPT !.raised = "none"], getNWSData(page), at)

Clock == 1..2

\* the rest of __init__: self._update(), then the timer is made and started
Start ==
  /\ ~nws.started
  /\ \E page \in Pages, at \in Clock :
       nws' = [update(nws, page, at) EXCEPT
                 !.started = TRUE,
                 !.timer = update(nws, page, at).raised = "none"]
  /\ UNCHANGED <<atmos, LOCK, outlooks, downloads, threads, spcw>>

\* the timer calls _update; an exception that leaves the slot is printed,
\* or ends the program, as the Qt binding has it
Timeout ==
  /\ nws.timer
  /\ \E page \in Pages, at \in Clock, goesOn \in BOOLEAN :
       nws' = [update(nws, page, at) EXCEPT
                 !.timer = update(nws, page, at).raised = "none" \/ goesOn]
  /\ UNCHANGED <<atmos, LOCK, outlooks, downloads, threads, spcw>>

\* no SPC object, no SPCWidget, no NWS_Forecast
NoGui ==
  /\ LOCK = Free
  /\ outlooks = NoOutlooks
  /\ downloads = 0
  /\ threads = [t \in Threads |-> NoThread]
  /\ spcw = NoSPCWidget
  /\ nws = NoForecast

\* ------------------------------------------------------------------------
\* Specification: any sequence of conversion calls on the constructed object
\* ------------------------------------------------------------------------

Init ==
  /\ self = StandardAtmos
  /\ pc = "idle"
  /\ op = "init"
  /\ arg = 0
  /\ src = NoSrc
  /\ loc = NoLoc
  /\ ret = NoRet
  /\ pair = NoPair
  /\ calls = [c \in Callers |-> NoCall]
  /\ frames = [c \in Callers |-> NoFrame]
  /\ widget = NoWidget
  /\ NoGui

Next ==
  \/ CallFromMeters
  \/ CallFromKilometers
  \/ CallFromKilofeet
  \/ CallFromPa
  \/ CallFromhPa
  \/ FromPaNarrow
  \/ FromPaReturn
  \/ CallFromTheta
  \/ FromThetaNarrow
  \/ FromThetaReturn

Spec == Init /\ [][Next]_vars

\* ------------------------------------------------------------------------
\* Specification SpecPair: fromMeters applied to two altitudes
\* ------------------------------------------------------------------------

\* altitudes in [0, 47000] m, whole metres: samples, ceilings, and the
\* altitudes 1 m from them
PairGrid ==
  LET base == AltSamples \cup Ceilings
  IN base \cup {x + AltUnit : x \in {y \in base : y + AltUnit <= Top}}
          \cup {Top - AltUnit}

InitPair ==
  /\ self = StandardAtmos
  /\ pc = "idle"
  /\ op = "init"
  /\ arg = 0
  /\ src = NoSrc
  /\ loc = NoLoc
  /\ ret = NoRet
  /\ pair \in {[NoPair EXCEPT !.a1 = x, !.a2 = y] :
                 x \in PairGrid, y \in PairGrid}
  /\ calls = [c \in Callers |-> NoCall]
  /\ frames = [c \in Callers |-> NoFrame]
  /\ widget = NoWidget
  /\ NoGui

ApplyPair ==
  /\ ~pair.done
  /\ pair' = [pair EXCEPT !.r1 = fromMeters(self, pair.a1),
                          !.r2 = fromMeters(self, pair.a2),
                          !.done = TRUE]
  /\ self' = fromMetersSelf(fromMetersSelf(self, pair.a1), pair.a2)
  /\ UNCHANGED <<pc, op, arg, src, loc, ret, outside>>

NextPair == ApplyPair

SpecPair == InitPair /\ [][NextPair]_vars

\* ------------------------------------------------------------------------
\* Specification SpecCalls: callers interleaved on one shared object
\* ------------------------------------------------------------------------

NextCalls ==
  \E c \in Callers :
    \/ CallerFromMeters(c)
    \/ FromMetersStep(c)
    \/ CallerFromPa(c)
    \/ FromPaStep(c)
    \/ CallerFromTheta(c)
    \/ FromThetaStep(c)

SpecCalls == Init /\ [][NextCalls]_vars

\* ------------------------------------------------------------------------
\* Specification SpecWidget: Enter pressed in the fields of the widget
\* ------------------------------------------------------------------------

InitWidget ==
  /\ self = StandardAtmos
  /\ pc = "idle"
  /\ op = "init"
  /\ arg = 0
  /\ src = NoSrc
  /\ loc = NoLoc
  /\ ret = NoRet
  /\ pair = NoPair
  /\ calls = [c \in Callers |-> NoCall]
  /\ frames = [c \in Callers |-> NoFrame]
  /\ widget = HeightConverter
  /\ NoGui

NextWidget ==
  \/ KmEntered
  \/ KftEntered
  \/ HPaEntered
  \/ ThetaEntered

SpecWidget == InitWidget /\ [][NextWidget]_vars

\* ------------------------------------------------------------------------
\* Specification: threads that call the methods of one SPC_Shapefiles
\* ------------------------------------------------------------------------

NoAtmos ==
  /\ self = StandardAtmos
  /\ pc = "idle"
  /\ op = "init"
  /\ arg = 0
  /\ src = NoSrc
  /\ loc = NoLoc
  /\ ret = NoRet
  /\ pair = NoPair
  /\ calls = [c \in Callers |-> NoCall]
  /\ frames = [c \in Callers |-> NoFrame]
  /\ widget = NoWidget

\* the objects constructed with the archives of day 1 and day 2
Constructed == {o \in SPC_Shapefiles : Has(o, Types[1], 1) /\ Has(o, Types[1], 2)}

InitSPC ==
  /\ NoAtmos
  /\ LOCK = Free
  /\ outlooks \in Constructed
  /\ downloads = 1
  /\ threads = [t \in Threads |-> NoThread]
  /\ spcw = NoSPCWidget
  /\ nws = NoForecast

NextSPC ==
  \E t \in Threads :
    \/ CallGetLatest(t)
    \/ CallProperty(t)
    \/ Acquire(t)
    \/ PropertyReturn(t)
    \/ FindShapefile(t)
    \/ Store(t)
    \/ CallGetItem(t)
    \/ GetItemStep(t)
    \/ GetItemReturn(t)

SpecSPC == InitSPC /\ [][NextSPC]_vars

\* ------------------------------------------------------------------------
\* Specification: the events of one SPCWidget
\* ------------------------------------------------------------------------

InitSPCWidget ==
  /\ NoAtmos
  /\ LOCK = Free
  /\ outlooks \in SPC_Shapefiles
  /\ downloads = 1
  /\ threads = [t \in Threads |-> NoThread]
  /\ spcw = SPCWidget(outlooks)
  /\ nws = NoForecast

NextSPCWidget ==
  \/ DayForward
  \/ DayBackward
  \/ OutlookTypeSelect
  \/ DeferredDelete
  \/ UpdateOutlook
  \/ AssignNonInteger

SpecSPCWidget == InitSPCWidget /\ [][NextSPCWidget]_vars

\* ------------------------------------------------------------------------
\* Specification: one NWS_Forecast and its timer
\* ------------------------------------------------------------------------

InitForecast ==
  /\ NoAtmos
  /\ NoGui

NextForecast ==
  \/ Start
  \/ Timeout

SpecForecast == InitForecast /\ [][NextForecast]_vars

\* ------------------------------------------------------------------------
\* Properties
\* ------------------------------------------------------------------------

ForwardOps == {"fromMeters", "fromKilometers", "fromKilofeet"}

PaOps == {"fromPa", "fromhPa"}

Finished(ops) == pc = "idle" /\ op \in ops

\* a forward tuple with every component present
Populated4(r) ==
  r.kind = "ok" /\ r.pres > 0 /\ r.temp > 0 /\ r.theta > 0 /\ r.den > 0

\* the tuple of fromPa / fromTheta with every component present
PopulatedPa(r) ==
  r.kind = "ok" /\ r.alt >= 0 /\ r.temp > 0 /\ r.theta > 0 /\ r.den > 0

PopulatedTheta(r) ==
  r.kind = "ok" /\ r.pres > 0 /\ r.alt >= 0 /\ r.temp > 0 /\ r.den > 0

PaInDomain == arg >= self.p[NLayers] /\ arg <= self.p0

ThetaInDomain == arg >= self.theta0 /\ arg <= self.theta[NLayers]

\* C1: a finished forward conversion has raised the out-of-range error
\* exactly when the altitude is below 0 or above 47000 m; for an altitude in
\* [0, 47000] it has returned a tuple with all four components and has not
\* fallen off the end of the layer loop.
C1_FromMetersTotal ==
  Finished(ForwardOps) =>
    /\ (ret.kind = "Exception") <=> (arg < 0 \/ arg > Top)
    /\ (arg >= 0 /\ arg <= Top) => Populated4(ret)
    /\ ret.kind # "None"

C1_Witness ==
  /\ Finished({"fromMeters"})
  /\ arg = Top
  /\ Populated4(ret)

\* C2: a finished fromPa with a pressure in [p at 47000 m, p0], and a
\* finished fromTheta with a potential temperature in [theta0, theta at
\* 47000 m], has returned a fully populated tuple; the out-of-range error is
\* the only error a conversion ends in.
C2_InDomainReturns ==
  /\ (Finished(PaOps) /\ PaInDomain) => PopulatedPa(ret)
  /\ (Finished({"fromTheta"}) /\ ThetaInDomain) => PopulatedTheta(ret)
  /\ ret.kind \in {"none", "ok", "Exception"}

\* C3: fromPa with a pressure above p0 or below the pressure at 47000 m ends
\* in the out-of-range error without entering the loop and without binding
\* h0, h1, mid.
C3_FromPaRejects ==
  (op \in PaOps /\ (arg > self.p0 \/ arg < self.p[NLayers])) =>
    (pc = "idle" /\ ret.kind = "Exception" /\ loc = NoLoc)

C3_Witness ==
  /\ op = "fromPa"
  /\ arg = self.p[NLayers] - 1
  /\ ret.kind = "Exception"

\* C4: fromTheta with a potential temperature below theta0 or above the
\* potential temperature at 47000 m ends in the out-of-range error without
\* entering the loop and without binding h0, h1, mid.
C4_FromThetaRejects ==
  (op = "fromTheta" /\ (arg < self.theta0 \/ arg > self.theta[NLayers])) =>
    (pc = "idle" /\ ret.kind = "Exception" /\ loc = NoLoc)

C4_Witness ==
  /\ op = "fromTheta"
  /\ arg = self.theta[NLayers] + 1
  /\ ret.kind = "Exception"

\* C5: fromPa applied to the pressure fromMeters returned for an altitude a
\* in [0, 47000] m returns an altitude within 1 m of a.
C5_RoundTripPa ==
  (Finished({"fromPa"}) /\ src # NoSrc) =>
    (ret.kind = "ok" /\ Abs(ret.alt - src) <= AltUnit)

\* C6: fromTheta applied to the potential temperature fromMeters returned
\* for an altitude a in [0, 47000] m returns an altitude within 1 m of a.
C6_RoundTripTheta ==
  (Finished({"fromTheta"}) /\ src # NoSrc) =>
    (ret.kind = "ok" /\ Abs(ret.alt - src) <= AltUnit)

\* C7: for every pressure in [p at 47000 m, p0] fromPa leaves its loop with
\* a residual of at most 0.05 Pa and with budget left.
C7_Converges ==
  (Finished(PaOps) /\ PaInDomain) =>
    (ret.kind = "ok" /\ Abs(loc.p - arg) <= PaTol /\ loc.i > 0)

\* what C7 leaves once the loop is entered: it is left on the residual, with
\* budget to spare
ConvergesOnceEntered ==
  (Finished(PaOps \cup {"fromTheta"}) /\ ret.kind = "ok") => loc.i > 0

Converged ==
  IF op = "fromTheta" THEN Abs(loc.theta - arg) <= ThetaTol
  ELSE Abs(loc.p - arg) <= PaTol

Returned == IF op = "fromTheta" THEN fromThetaReturn(loc) ELSE fromPaReturn(loc)

\* C8: the loop of fromPa and of fromTheta starts with a budget of 50 and
\* keeps it in 0..50; a step taken inside the loop leaves it, returning the
\* tuple of the last midpoint and no error, when the residual is at most 0.05
\* or the budget is 0, and otherwise is one more pass that takes one from
\* the budget: a call makes at most 50 passes and then returns.
C8_Terminates ==
  /\ [](pc = "bisect" => loc.i \in 0..MaxIter)
  /\ [][(pc # "bisect" /\ pc' = "bisect") => loc'.i = MaxIter]_vars
  /\ [][pc = "bisect" =>
          IF Converged \/ loc.i = 0
          THEN pc' = "idle" /\ ret' = Returned /\ ret'.alt = loc.mid
          ELSE pc' = "bisect" /\ loc'.i = loc.i - 1]_vars

C8_Witness ==
  /\ Finished({"fromTheta"})
  /\ ret.kind = "ok"
  /\ loc.i < MaxIter
  /\ ret.alt = loc.mid

StrictlyUp(f) == \A i \in 1..(NLayers - 1) : f[i] < f[i + 1]

StrictlyDown(f) == \A i \in 1..(NLayers - 1) : f[i] > f[i + 1]

C10_TableFrozen == self = StandardAtmos

C10_Witness ==
  /\ Finished({"fromPa"})
  /\ ret.kind = "ok"
  /\ loc.i < MaxIter

\* what the call k returns when it is the only call on the constructed object
Alone(k) ==
  CASE k.op = "fromMeters" -> fromMeters(StandardAtmos, k.arg)
    [] k.op = "fromPa" -> fromPa(StandardAtmos, k.arg)
    [] k.op = "fromTheta" -> fromTheta(StandardAtmos, k.arg)
    [] OTHER -> NoRet

\* a step changed the call or the locals of caller c
Touched(c) == calls'[c] # calls[c] \/ frames'[c] # frames[c]

\* C11: with callers interleaved in every order on one shared object, a
\* finished call has the outcome the same call has when run alone, and a
\* step changes the call state and the locals (h0, h1, mid, i of the
\* bisection; p0, t0, prevh of the forward walk) of one caller only.
C11_Isolated ==
  /\ [](\A c \in Callers :
          (calls[c].pc = "idle" /\ calls[c].op # "none") =>
            calls[c].ret = Alone(calls[c]))
  /\ [][Cardinality({c \in Callers : Touched(c)}) <= 1]_vars

C11_Witness ==
  /\ calls[1].pc = "bisect" /\ frames[1].i < MaxIter
  /\ calls[2].pc = "walk" /\ frames[2].i > 1

Carried(r) == {r.carries[k] : k \in DOMAIN r.carries}

\* C12: the out-of-range error of fromMeters, fromPa and fromTheta carries
\* the offending input value and the bounds of the operation's domain.
C12_ErrorCarries ==
  (pc = "idle" /\ ret.kind = "Exception") =>
    /\ arg \in Carried(ret)
    /\ op \in ForwardOps => {0, Top} \subseteq Carried(ret)
    /\ op \in PaOps => {self.p0, self.p[NLayers]} \subseteq Carried(ret)
    /\ op = "fromTheta" =>
         {self.theta0, self.theta[NLayers]} \subseteq Carried(ret)

\* the forward walk of caller c has passed the ceiling k and its locals
\* are the state fromMeters returns for that ceiling
BaseIs(f, k, r) ==
  /\ f.prevh = self.h[k]
  /\ r.kind = "ok"
  /\ f.p0 = r.pres /\ f.p0 = self.p[k]
  /\ f.t0 = r.temp /\ f.t0 = self.t[k]

\* C13: when the walk of fromMeters has passed a ceiling, the base state
\* (p0, t0) from which the next layer's formula starts is identical to the
\* (pressure, temperature) fromMeters returns for that ceiling, computed
\* inside the lower layer.
C13_Continuous ==
  \A c \in Callers :
    (calls[c].pc = "walk" /\ frames[c].i > 1 /\ frames[c].i <= NLayers) =>
      BaseIs(frames[c], frames[c].i - 1,
             fromMeters(self, self.h[frames[c].i - 1]))

C13_Witness ==
  /\ calls[1].pc = "walk"
  /\ frames[1].i = 3
  /\ frames[1].prevh = self.h[2]

\* C14: for every altitude in [11000, 20000] m the temperature fromMeters
\* returns is the very same value, the one at 11000 m and at 20000 m.
C14_Isothermal ==
  /\ self.t[1] = self.t[2]
  /\ (Finished(ForwardOps) /\ arg >= self.h[1] /\ arg <= self.h[2]) =>
       (ret.kind = "ok" /\ ret.temp = self.t[1])

C14_Witness ==
  /\ Finished(ForwardOps)
  /\ arg > self.h[1] /\ arg < self.h[2]
  /\ ret.kind = "ok"
  /\ ret.temp = self.t[2]

\* C15: fromMeters(0) returns exactly the ground pressure 101325 Pa, exactly
\* the ground temperature 288.15 K, and the stored theta0, which is t2theta
\* of those two.
C15_Ground ==
  /\ self.p0 = 101325 * PresUnit
  /\ self.t0 = 28815 * (TempUnit \div 100)
  /\ self.theta0 = t2theta(self.t0, self.p0)
  /\ (Finished(ForwardOps) /\ arg = 0) =>
       /\ ret.kind = "ok"
       /\ ret.pres = self.p0
       /\ ret.temp = self.t0
       /\ ret.theta = self.theta0

C15_Witness ==
  /\ Finished({"fromMeters"})
  /\ arg = 0
  /\ ret.kind = "ok"
  /\ ret.pres = self.p0

\* the standard-atmosphere state for the number txt entered in a field
StandardFor(field, txt) ==
  CASE field = "km" -> fromMeters(self, Float("km", txt))
    [] field = "kft" ->
         fromMeters(self, MulDiv(Float("kft", txt), KftUnit, KM2KFT))
    [] field = "hPa" -> fromPa(self, Float("hPa", txt))
    [] field = "theta" -> fromTheta(self, Float("theta", txt))

\* the altitude, in the unit of the km value, that belongs to the entry
AltFor(field, txt, r) ==
  CASE field = "km" -> Float("km", txt)
    [] field = "kft" -> MulDiv(Float("kft", txt), KftUnit, KM2KFT)
    [] OTHER -> r.alt

\* the texts the fields other than the entered one must show
ShowsFor(w, field, txt, r) ==
  /\ field # "km" => w.text.km = FMT("km", AltFor(field, txt, r))
  /\ field # "kft" =>
       w.text.kft = FMT("kft", MulDiv(AltFor(field, txt, r), KM2KFT, KftUnit))
  /\ field # "hPa" => w.text.hPa = FMT("hPa", r.pres)
  /\ w.text.temp = FMT("temp", r.temp)
  /\ field # "theta" => w.text.theta = FMT("theta", r.theta)

\* C16: after Enter in the km, kft, hPa or theta field with a number in
\* range, every other field shows the standard-atmosphere value that
\* corresponds to the entered number.
C16_EnterUpdates ==
  (/\ widget.entered.text.ok
   /\ StandardFor(widget.entered.field, widget.entered.text).kind = "ok") =>
     ShowsFor(widget, widget.entered.field, widget.entered.text,
              StandardFor(widget.entered.field, widget.entered.text))

\* C17: a pass of the loop of fromPa that stays in the loop moves h0 to mid
\* and keeps h1 when the pressure at mid exceeds the target, and otherwise
\* moves h1 to mid and keeps h0.
C17_PaNarrows ==
  [][(InFromPa /\ pc' = "bisect") =>
       /\ IF loc.p > arg
          THEN loc'.h0 = loc.mid /\ loc'.h1 = loc.h1
          ELSE loc'.h1 = loc.mid /\ loc'.h0 = loc.h0
       /\ loc'.mid = Mid(loc'.h0, loc'.h1)]_vars

C17_Witness ==
  /\ InFromPa
  /\ loc.i < MaxIter
  /\ loc.h0 \notin ({0} \cup Ceilings)
  /\ loc.h1 \notin Ceilings

\* C18: a pass of the loop of fromTheta that stays in the loop moves h0 to
\* mid and keeps h1 when the potential temperature at mid is below the
\* target, and otherwise moves h1 to mid and keeps h0: the comparison of
\* fromPa mirrored.
C18_ThetaNarrows ==
  [][(InFromTheta /\ pc' = "bisect") =>
       /\ IF loc.theta < arg
          THEN loc'.h0 = loc.mid /\ loc'.h1 = loc.h1
          ELSE loc'.h1 = loc.mid /\ loc'.h0 = loc.h0
       /\ loc'.mid = Mid(loc'.h0, loc'.h1)]_vars

C18_Witness ==
  /\ InFromTheta
  /\ loc.i < MaxIter
  /\ loc.h0 \notin ({0} \cup Ceilings)
  /\ loc.h1 \notin Ceilings

\* the interval is one layer of the table
OneLayer(h0, h1) ==
  \E i \in 1..NLayers :
    h1 = self.h[i] /\ h0 = (IF i = 1 THEN 0 ELSE self.h[i - 1])

\* the end values of the interval bracket the target
Brackets(lo, hi) ==
  /\ lo.kind = "ok" /\ hi.kind = "ok"
  /\ IF op = "fromTheta"
     THEN lo.theta <= arg /\ arg <= hi.theta
     ELSE hi.pres <= arg /\ arg <= lo.pres

\* C19: inside the loop of fromPa and of fromTheta the interval starts as
\* one layer of the table, its end values bracket the target at every pass
\* (pressure(h1) <= target <= pressure(h0), theta(h0) <= target <=
\* theta(h1)), 0 <= h0 <= mid <= h1 <= 47000 m, and the evaluation of
\* fromMeters at mid never ends the call with an error.
C19_Bracket ==
  /\ [](pc = "bisect" =>
          /\ 0 <= loc.h0 /\ loc.h0 <= loc.mid
          /\ loc.mid <= loc.h1 /\ loc.h1 <= Top
          /\ loc.i = MaxIter => OneLayer(loc.h0, loc.h1)
          /\ Brackets(fromMeters(self, loc.h0), fromMeters(self, loc.h1)))
  /\ [][(pc = "bisect" /\ pc' = "idle") => ret'.kind = "ok"]_vars

C19_Witness ==
  /\ InFromTheta
  /\ loc.i < MaxIter - 5
  /\ loc.h0 > self.h[1]
  /\ loc.h0 < loc.mid /\ loc.mid < loc.h1

\* the components of an inverse result that are the forward state f
IsForwardState(r, f) ==
  /\ f.kind = "ok"
  /\ r.temp = f.temp
  /\ r.den = f.den
  /\ IF op = "fromTheta" THEN r.pres = f.pres ELSE r.theta = f.theta

\* C20: the tuple fromPa returns is (mid, t, theta, d) and the tuple
\* fromTheta returns is (p, mid, t, d), where mid is the last midpoint and
\* (p, t, theta, d) is fromMeters(mid).
C20_ReturnsForwardState ==
  (Finished(PaOps \cup {"fromTheta"}) /\ ret.kind = "ok") =>
    /\ ret.alt = loc.mid
    /\ DOMAIN ret = (IF op = "fromTheta"
                     THEN {"kind", "pres", "alt", "temp", "den"}
                     ELSE {"kind", "alt", "temp", "theta", "den"})
    /\ IsForwardState(ret, fromMeters(self, ret.alt))

C20_Witness ==
  /\ Finished({"fromhPa"})
  /\ ret.kind = "ok"
  /\ loc.i < MaxIter - 2
  /\ ret.temp = loc.t

\* ------------------------------------------------------------------------
\* C21, C22: the forward conversion and the table, layer by layer
\* ------------------------------------------------------------------------

\* the altitude at which layer k starts
Floor(s, k) == IF k = 1 THEN 0 ELSE s.h[k - 1]

\* the first layer, in increasing order, whose ceiling is at or above alt
FirstLayer(s, alt) ==
  CHOOSE i \in 1..NLayers :
    s.h[i] >= alt /\ \A j \in 1..(i - 1) : s.h[j] < alt

\* the state <<p, t>> at the ceiling of layer k: the ground state for k = 0,
\* otherwise the transition formula chained through the layers 1..k
RECURSIVE Chained(_, _)
Chained(s, k) ==
  IF k = 0 THEN <<s.p0, s.t0>>
  ELSE The({cal(b[1], b[2], s.a[k], Floor(s, k), s.h[k]) :
              b \in {Chained(s, k - 1)}})

\* the transition formula applied once, from the base of layer k to alt
OnceFrom(s, k, alt) ==
  The({cal(b[1], b[2], s.a[k], Floor(s, k), alt) : b \in {Chained(s, k - 1)}})

\* C21: a finished forward conversion of an altitude in [0, 47000] m returns
\* the transition formula applied once from the base of the first layer whose
\* ceiling is at or above the altitude (a ceiling belongs to the layer below
\* it), the base being the ground state chained through every full layer
\* below; theta and density are derived from the returned pressure and
\* temperature.
C21_FirstLayerOnce ==
  (Finished(ForwardOps) /\ arg >= 0 /\ arg <= Top) =>
    /\ ret.kind = "ok"
    /\ <<ret.pres, ret.temp>> = OnceFrom(self, FirstLayer(self, arg), arg)
    /\ ret.theta = t2theta(ret.temp, ret.pres)
    /\ ret.den = density(ret.temp, ret.pres)

\* a conversion of an altitude above the first ceiling and below the third,
\* off the ceilings: the walk has advanced its base before it returned
C21_Witness ==
  /\ Finished(ForwardOps)
  /\ arg > self.h[1] /\ arg < self.h[3] /\ arg # self.h[2]
  /\ FirstLayer(self, arg) > 1
  /\ ret.kind = "ok"

\* C22: the constructed table has exactly four entries per column, in layer
\* order, and entry i is both fromMeters(h[i]) and the ground state chained
\* through the layers 1..i, each step seeded with the entry before it.
C22_TableTwoWays ==
  /\ Len(self.p) = NLayers /\ Len(self.t) = NLayers
  /\ Len(self.theta) = NLayers
  /\ \A i \in 1..NLayers :
       /\ fromMeters(self, self.h[i]) =
            Tuple4(self.p[i], self.t[i], self.theta[i],
                   density(self.t[i], self.p[i]))
       /\ <<self.p[i], self.t[i]>> = Chained(self, i)
       /\ <<self.p[i], self.t[i]>> =
            cal(IF i = 1 THEN self.p0 ELSE self.p[i - 1],
                IF i = 1 THEN self.t0 ELSE self.t[i - 1],
                self.a[i], Floor(self, i), self.h[i])
       /\ self.theta[i] = t2theta(self.t[i], self.p[i])

\* the constructed object, asked for the state at its top ceiling
C22_Witness ==
  /\ Finished({"fromMeters"})
  /\ arg = self.h[NLayers]
  /\ ret.kind = "ok"
  /\ ret.pres = self.p[NLayers]
  /\ self.p[1] > self.p[2] /\ self.p[3] > self.p[NLayers]

\* ------------------------------------------------------------------------
\* C23, C24: the fields and the last good values of the HeightConverter
\* ------------------------------------------------------------------------

\* the texts the fields show for the values v
Shown(v) == [k \in Fields |-> FMT(k, v[k])]

\* C23: an Enter whose text is not a number, or whose conversion fails, puts
\* the values of the last successful conversion back into every field, the
\* edited one included, and leaves oldVals as it was.
C23_FailureRestores ==
  [][widget'.log # "none" =>
       /\ widget'.oldVals = widget.oldVals
       /\ widget'.text = Shown(widget.oldVals)]_vars

\* a number out of the range of the model was entered after a successful
\* conversion of another altitude, and the edited field shows the old value
C23_Witness ==
  /\ widget.log = "Exception"
  /\ widget.entered.text.ok
  /\ widget.oldVals.km > 0
  /\ widget.text[widget.entered.field] # widget.entered.text

\* the five values belong to one conversion: pressure and temperature are
\* the standard atmosphere at the altitude, kft and km are each other's
\* conversion, and theta is the forward value or the value entered
OneConversion(v, e) ==
  /\ \/ v.kft = MulDiv(v.km, KM2KFT, KftUnit)
     \/ v.km = MulDiv(v.kft, KftUnit, KM2KFT)
  /\ LET r == fromMeters(self, v.km)
     IN /\ r.kind = "ok"
        /\ v.hPa = r.pres
        /\ v.temp = r.temp
        /\ \/ v.theta = r.theta
           \/ e.field = "theta" /\ v.theta = Float("theta", e.text)

\* C24: oldVals has exactly the keys km, kft, hPa, temp, theta, every field
\* shows the formatted oldVals entry of its key, and an Enter replaces either
\* none of the five values or all of them, by the values of one conversion
\* of the text entered.
C24_AllOrNone ==
  /\ [](/\ DOMAIN widget.oldVals = Fields
        /\ widget.text = Shown(widget.oldVals))
  /\ [][\/ widget'.oldVals = widget.oldVals
        \/ /\ widget'.log = "none"
           /\ widget'.oldVals[widget'.entered.field] =
                Float(widget'.entered.field, widget'.entered.text)
           /\ OneConversion(widget'.oldVals, widget'.entered)]_vars

\* a potential temperature was entered and converted: all five values are
\* those of its altitude
C24_Witness ==
  /\ widget.log = "none"
  /\ widget.entered.field = "theta"
  /\ widget.oldVals.km > 0
  /\ widget.oldVals.theta = Float("theta", widget.entered.text)
  /\ widget.text = Shown(widget.oldVals)

\* ------------------------------------------------------------------------
\* C25, C26, C27: the LOCK and getLatest of SPC_Shapefiles
\* ------------------------------------------------------------------------

\* C25: at most one thread is inside a function wrapped by threadSafe, a
\* thread holds LOCK exactly while it is inside one (so the lock is free
\* again after every return and every exception), and no thread waits for
\* the lock it holds.
C25_LockExcludes ==
  /\ \A t, u \in Threads : (Inside(t) /\ Inside(u)) => t = u
  /\ \A t \in Threads : Inside(t) <=> LOCK = t
  /\ \A t \in Threads : threads[t].pc = "wait" => LOCK # t

\* a property getter waits for the lock while getLatest stores an archive
C25_Witness ==
  \E t, u \in Threads :
    /\ threads[t].pc = "wait" /\ threads[t].op \in TypeSet
    /\ threads[u].pc = "store" /\ threads[u].op = "getLatest"
    /\ LOCK = u

\* C26: while a thread is inside getLatest, no other thread reads the
\* stored outlooks, through a property or through __getitem__.
C26_NoReadDuringUpdate ==
  \A t, u \in Threads :
    (threads[t].op = "getLatest" /\ Inside(t) /\ u # t) =>
      threads[u].pc \notin {"in", "item"}

\* C27: a day whose archive findShapefile does not return (no page, not
\* exactly one link to a .zip, no archive) changes no dictionary, and the
\* loop goes on with the next day, or ends normally after day 3; a step of
\* getLatest for one day changes no entry of another day.
C27_FailureSkipsDay ==
  [][\A t \in Threads :
       /\ (/\ threads[t].pc = "find"
           /\ threads'[t] # threads[t]
           /\ findShapefile(threads'[t].web) = None)
            => /\ outlooks' = outlooks
               /\ IF threads[t].day < 3
                  THEN /\ threads'[t].pc = "find"
                       /\ threads'[t].day = threads[t].day + 1
                       /\ LOCK' = t
                  ELSE /\ threads'[t].pc = "idle"
                       /\ threads'[t].ret = None
       /\ threads[t].pc = "store" =>
            \A ty \in TypeSet : \A d \in Days \ {threads[t].day} :
              outlooks'[ty][d] = outlooks[ty][d]]_vars

\* the second download got no archive for day 1, whose entries are still
\* those of the first, stored the archive of day 2 and is at day 3
C27_Witness ==
  \E t \in Threads :
    /\ threads[t].op = "getLatest" /\ threads[t].pc = "find"
    /\ threads[t].day = 3
    /\ \A ty \in TypeSet : outlooks[ty][1] = 1 /\ outlooks[ty][2] = threads[t].id
    /\ threads[t].id > 1

\* ------------------------------------------------------------------------
\* C28: the outlook day of the SPCWidget
\* ------------------------------------------------------------------------

\* C28: currentDay is one of 1, 2, 3 after construction and after every
\* click on a day button and every assignment of a value that is no int.
C28_DayInRange == spcw.currentDay \in Days

\* ------------------------------------------------------------------------
\* C29, C30: NWS_Forecast._update and the limits of the meteogram
\* ------------------------------------------------------------------------

\* C29: an _update whose getNWSData returns None or raises ends without an
\* exception and leaves the meteogram and the two labels as they were, with
\* the timer running.
C29_FailureKeeps ==
  [][nws'.got \in {"None", "Exception"} =>
       /\ nws'.raised = "none"
       /\ nws'.fig = nws.fig
       /\ nws'.update = nws.update
       /\ nws'.download = nws.download
       /\ nws'.timer]_vars

\* C30: the limits plot_thermo sets are multiples of 10 and every value of
\* the three series lies between them.
C30_RangeContains ==
  nws.fig.data.kind = "data" =>
    /\ nws.fig.ylim[1] % 10 = 0
    /\ nws.fig.ylim[2] % 10 = 0
    /\ \A v \in thermoValues(nws.fig.data) :
         nws.fig.ylim[1] <= v /\ v <= nws.fig.ylim[2]

====
